---- MODULE Spec2Model ----
(***************************************************************************)
(* Model of the Polymarket dashboard pipeline (backend/main.py and the     *)
(* modules it calls): market fetch, risk enrichment, news fetch, news      *)
(* relevance classification with cache / AI / keyword fallback, and the    *)
(* aggregation of the dashboard widgets.                                   *)
(*                                                                         *)
(* Conventions.                                                            *)
(*  - A Python str is a sequence of one-character strings.                 *)
(*  - A Python dict is a function whose domain is its set of keys.         *)
(*  - relevance_score is kept in half points (the keyword strategy adds    *)
(*    0.5 per overlapping token): Pts(n) is n whole points.                *)
(*  - A price / probability is kept in thousandths, a multiplier in        *)
(*    hundredths (the code rounds it to 2 decimals), a score in            *)
(*    millionths (the code rounds it to 6 decimals).                       *)
(***************************************************************************)
EXTENDS Integers, Sequences, FiniteSets, TLC

(***************************************************************************)
(* Python helpers                                                          *)
(***************************************************************************)
None == [none |-> TRUE]

EmptyDict == [f \in {} |-> 0]

Min(a, b) == IF a <= b THEN a ELSE b

Max(a, b) == IF a >= b THEN a ELSE b

Pts(n) == 2 * n

Range(s) == {s[i] : i \in DOMAIN s}

\* s[:n]
Take(s, n) == SubSeq(s, 1, Min(n, Len(s)))

\* [x for x in s if x in keep], in the order of s
RECURSIVE FilterSeq(_, _)
FilterSeq(s, keep) ==
    IF s = <<>> THEN <<>>
    ELSE IF Head(s) \in keep THEN <<Head(s)>> \o FilterSeq(Tail(s), keep)
         ELSE FilterSeq(Tail(s), keep)

\* d[k] = v
DictPut(d, k, v) == [q \in DOMAIN d \cup {k} |-> IF q = k THEN v ELSE d[q]]

\* d.get(k, default)
DictGet(d, k, default) == IF k \in DOMAIN d THEN d[k] ELSE default

UpperCase ==
    << "A","B","C","D","E","F","G","H","I","J","K","L","M",
       "N","O","P","Q","R","S","T","U","V","W","X","Y","Z" >>

LowerCase ==
    << "a","b","c","d","e","f","g","h","i","j","k","l","m",
       "n","o","p","q","r","s","t","u","v","w","x","y","z" >>

\* str.lower() on one character
LowerChar(c) ==
    IF \E i \in DOMAIN UpperCase : UpperCase[i] = c
    THEN LowerCase[CHOOSE i \in DOMAIN UpperCase : UpperCase[i] = c]
    ELSE c

\* str.lower()
lower(s) == [i \in DOMAIN s |-> LowerChar(s[i])]

\* a in b, for two str
IsSubstring(a, b) ==
    \E i \in 0..(Len(b) - Len(a)) : SubSeq(b, i + 1, i + Len(a)) = a

\* set(s.split()): the maximal runs of non-blank characters
split(s) ==
    {SubSeq(s, i, j) : <<i, j>> \in
        {p \in (DOMAIN s) \X (DOMAIN s) :
            /\ p[1] <= p[2]
            /\ \A k \in p[1]..p[2] : s[k] # " "
            /\ (p[1] = 1 \/ s[p[1] - 1] = " ")
            /\ (p[2] = Len(s) \/ s[p[2] + 1] = " ")}}

\* descending, equal keys in the reverse of the order of s
SortedDesc_reversed_ties(s, key) ==
    LET place(i) == Cardinality({j \in DOMAIN s : s[j][key] > s[i][key]})
                    + Cardinality({j \in i..Len(s) : s[j][key] = s[i][key]})
    IN  [p \in DOMAIN s |-> s[CHOOSE i \in DOMAIN s : place(i) = p]]

\* sorted(s, key=lambda x: x[key], reverse=True): descending, equal keys keep
\* the order of s
SortedDesc(s, key) ==
    LET place(i) == Cardinality({j \in DOMAIN s : s[j][key] > s[i][key]})
                    + Cardinality({j \in 1..i : s[j][key] = s[i][key]})
    IN  [p \in DOMAIN s |-> s[CHOOSE i \in DOMAIN s : place(i) = p]]

\* the decimal digits, in order
Digits == <<"0","1","2","3","4","5","6","7","8","9">>

(***************************************************************************)
(* risk_calculator.py                                                      *)
(***************************************************************************)
\* round(n / d) for d > 0, ties to even as Python's round()
RoundDiv(n, d) ==
    LET a == IF n < 0 THEN 0 - n ELSE n
        q == a \div d
        r == a % d
        m == IF 2 * r < d THEN q
             ELSE IF 2 * r > d THEN q + 1
             ELSE IF q % 2 = 0 THEN q ELSE q + 1
    IN  IF n < 0 THEN 0 - m ELSE m

\* round(1000000 * n / d) for n >= 0, d > 0, by long division (machine integers)
RoundMillionths(n, d) ==
    LET r1 == n % d
        r2 == (r1 * 1000) % d
    IN  (n \div d) * 1000000 + ((r1 * 1000) \div d) * 1000 + RoundDiv(r2 * 1000, d)

\* math.log10(volume) for volume a power of ten (the volumes of the model)
RECURSIVE Log10(_)
Log10(volume) == IF volume < 10 THEN 0 ELSE 1 + Log10(volume \div 10)

\* the fraction is not clamped to [0, 1]
kelly_criterion_unclamped(probability, price) ==
    IF price > 0 /\ price < 1000
    THEN RoundDiv(10000 * (probability - price), 1000 - price)
    ELSE 0

\* lines 31-39, in ten-thousandths: with multiplier = 1 / price > 1 and
\* b = multiplier - 1, (b * probability - (1 - probability)) / b is
\* (probability - price) / (1 - price)
kelly_criterion(probability, price) ==
    IF price > 0 /\ price < 1000
    THEN Max(0, Min(RoundDiv(10000 * (probability - price), 1000 - price), 10000))
    ELSE 0

\* probability, price in thousandths; volume in USD.  The result carries
\* multiplier in hundredths, expected_value and kelly_fraction in
\* ten-thousandths, volume_weight in ten-thousandths, score in millionths.
calculate_risk_reward_score(probability, price, volume) ==
    LET \* min(max((log10(volume) - 4) / 3, 0.1), 1.0) as the fraction wn / wd
        lg == Log10(volume)
        wn == IF volume > 0 /\ 10 * (lg - 4) > 3
              THEN (IF lg - 4 < 3 THEN lg - 4 ELSE 3) ELSE 3
        wd == IF volume > 0 /\ 10 * (lg - 4) > 3 THEN 3 ELSE 30
    IN  [ score |-> IF price > 0 /\ price < 1000
                    THEN RoundMillionths((1000 - price) * wn, price * wd) ELSE 0,
          multiplier |-> IF price > 0 THEN RoundDiv(100000, price) ELSE 0,
          expected_value |-> IF price > 0
                             THEN RoundDiv(10000 * (probability - price), price)
                             ELSE 0 - 10000,
          kelly_fraction |-> kelly_criterion(probability, price),
          volume_weight |-> RoundDiv(10000 * wn, wd) ]

\* the upper end of the medium probabilities is left out
categorize_risk_strict(probability, multiplier) ==
    IF 50 <= probability /\ probability < 100 /\ 1000 <= multiplier /\ multiplier <= 2000
    THEN "medium"
    ELSE IF 100 < probability /\ probability <= 200 /\ 500 <= multiplier /\ multiplier <= 1000
    THEN "low"
    ELSE IF probability < 50 /\ multiplier > 2000
    THEN "extreme"
    ELSE IF probability > 600 /\ multiplier < 200
    THEN "safe"
    ELSE "other"

\* probability in thousandths, multiplier in hundredths
categorize_risk(probability, multiplier) ==
    IF 50 <= probability /\ probability <= 100 /\ 1000 <= multiplier /\ multiplier <= 2000
    THEN "medium"
    ELSE IF 100 < probability /\ probability <= 200 /\ 500 <= multiplier /\ multiplier <= 1000
    THEN "low"
    ELSE IF probability < 50 /\ multiplier > 2000
    THEN "extreme"
    ELSE IF probability > 600 /\ multiplier < 200
    THEN "safe"
    ELSE "other"

\* the outcomes of one market: zip(outcomes_list, prices_list)
enrich_outcomes(market) ==
    [ i \in 1..Min(Len(market.outcomes), Len(market.outcomePrices)) |->
        LET price == market.outcomePrices[i]
            risk_metrics == calculate_risk_reward_score(price, price, market.volume)
        IN  [ name |-> market.outcomes[i],
              price |-> price,
              probability |-> price,
              volume |-> market.volume,
              risk_metrics |->
                  [ score |-> risk_metrics.score,
                    multiplier |-> risk_metrics.multiplier,
                    expected_value |-> risk_metrics.expected_value,
                    kelly_fraction |-> risk_metrics.kelly_fraction,
                    volume_weight |-> risk_metrics.volume_weight,
                    risk_category |-> categorize_risk(price, risk_metrics.multiplier) ] ] ]

\* the enriched markets of every event group, flattened in order
RECURSIVE enrich_with_risk_metrics(_)
enrich_with_risk_metrics(markets_data) ==
    IF markets_data = <<>> THEN <<>>
    ELSE LET event_group == Head(markets_data)
         IN  [ i \in DOMAIN event_group.markets |->
                 LET market == event_group.markets[i]
                 IN  [ question |-> market.question,
                       url |-> <<"/">> \o market.slug,
                       volume |-> market.volume,
                       outcomes |-> enrich_outcomes(market),
                       market_id |-> market.id ] ]
             \o enrich_with_risk_metrics(Tail(markets_data))

\* The same steps on a price as the API writes it, a decimal numeral such as
\* "0.04999".  The price is kept as the fraction num / den of the numeral,
\* so that a price between two thousandths has its own value.
DigitValue(c) == (CHOOSE i \in DOMAIN Digits : Digits[i] = c) - 1

RECURSIVE DigitsValue(_)
DigitsValue(digits) ==
    IF digits = <<>> THEN 0
    ELSE 10 * DigitsValue(SubSeq(digits, 1, Len(digits) - 1))
         + DigitValue(digits[Len(digits)])

RECURSIVE Pow10(_)
Pow10(n) == IF n = 0 THEN 1 ELSE 10 * Pow10(n - 1)

\* float(price_str): the digits before and after the point
float(price_str) ==
    LET points == {i \in DOMAIN price_str : price_str[i] = "."}
        point == IF points = {} THEN Len(price_str) + 1
                 ELSE CHOOSE i \in points : TRUE
        decimals == IF points = {} THEN 0 ELSE Len(price_str) - point
    IN  [ num |-> DigitsValue(SubSeq(price_str, 1, point - 1)
                              \o SubSeq(price_str, point + 1, Len(price_str))),
          den |-> Pow10(decimals) ]

\* round(multiplier, 2) of multiplier = 1 / price if price > 0 else 0, in
\* hundredths
rounded_multiplier(price) ==
    IF price.num > 0 THEN RoundDiv(100 * price.den, price.num) ELSE 0

\* categorize_risk on the probability num / den; multiplier in hundredths
categorize_risk_of_fraction(probability, multiplier) ==
    LET p == probability.num
        one == probability.den
    IN  IF 5 * one <= 100 * p /\ 10 * p <= one /\ 1000 <= multiplier /\ multiplier <= 2000
        THEN "medium"
        ELSE IF one < 10 * p /\ 5 * p <= one /\ 500 <= multiplier /\ multiplier <= 1000
        THEN "low"
        ELSE IF 100 * p < 5 * one /\ multiplier > 2000
        THEN "extreme"
        ELSE IF 10 * p > 6 * one /\ multiplier < 200
        THEN "safe"
        ELSE "other"

\* one turn of the loop over zip(outcomes_list, prices_list): the price, the
\* multiplier of the metrics and the category
enrich_outcome(price_str) ==
    LET price == float(price_str)
        multiplier == rounded_multiplier(price)
    IN  [ price |-> price,
          multiplier |-> multiplier,
          risk_category |-> categorize_risk_of_fraction(price, multiplier) ]

(***************************************************************************)
(* news_analyzer.py: cache key and the two strategies                      *)
(***************************************************************************)
\* the text that get_cache_key hashes; the md5 digest is taken as injective
get_cache_key(news_title, market_id) == news_title \o <<":">> \o market_id

STOPWORDS ==
    { <<"t","h","e">>, <<"a">>, <<"a","n">>, <<"w","i","l","l">>, <<"b","e">>,
      <<"i","s">>, <<"i","n">>, <<"o","f">>, <<"t","o">>, <<"f","o","r">>,
      <<"o","n">>, <<"a","t">> }

\* the outcome names are matched as they are written, not lower-cased
keyword_fallback_analysis_case_sensitive(news_title, market_question, market_outcomes) ==
    LET news_lower == lower(news_title)
        question_lower == lower(market_question)
        matching_outcomes ==
            FilterSeq(market_outcomes,
                      {o \in Range(market_outcomes) : IsSubstring(o, news_lower)})
        question_keywords == split(question_lower) \ STOPWORDS
        news_keywords == split(news_lower)
        overlap == Cardinality(question_keywords \cap news_keywords)
        relevance_score ==
            (IF matching_outcomes # <<>> THEN Pts(5) ELSE 0) + Min(overlap, Pts(5))
    IN  [ relevance_score |-> Min(relevance_score, Pts(10)),
          affects_outcomes |-> matching_outcomes,
          impact_direction |-> "neutral",
          confidence |-> "low",
          reasoning |-> "Keyword match: " \o ToString(Len(matching_outcomes))
                        \o " outcomes, " \o ToString(overlap) \o " keywords overlap",
          analysis_method |-> "keyword_fallback" ]

keyword_fallback_analysis(news_title, market_question, market_outcomes) ==
    LET news_lower == lower(news_title)
        question_lower == lower(market_question)
        matching_outcomes ==
            FilterSeq(market_outcomes,
                      {o \in Range(market_outcomes) : IsSubstring(lower(o), news_lower)})
        question_keywords == split(question_lower) \ STOPWORDS
        news_keywords == split(news_lower)
        overlap == Cardinality(question_keywords \cap news_keywords)
        \* overlap * 0.5 is `overlap` half points
        relevance_score ==
            (IF matching_outcomes # <<>> THEN Pts(5) ELSE 0) + Min(overlap, Pts(5))
    IN  [ relevance_score |-> Min(relevance_score, Pts(10)),
          affects_outcomes |-> matching_outcomes,
          impact_direction |-> "neutral",
          confidence |-> "low",
          reasoning |-> "Keyword match: " \o ToString(Len(matching_outcomes))
                        \o " outcomes, " \o ToString(overlap) \o " keywords overlap",
          analysis_method |-> "keyword_fallback" ]

\* result.setdefault('analysis_method', 'claude_ai'): a method named by the reply is kept
analyze_with_claude_setdefault(reply) ==
    IF reply.kind = "object"
    THEN [f \in DOMAIN reply.dict \cup {"analysis_method"} |->
             IF f \in DOMAIN reply.dict THEN reply.dict[f] ELSE "claude_ai"]
    ELSE None

\* The reply of client.messages.create as analyze_with_claude sees it:
\*   [kind |-> "error"]   the request raised (transport failure)
\*   [kind |-> "text"]    response.content[0].text is not JSON
\*   [kind |-> "array"]   the text is JSON but not an object
\*   [kind |-> "object", dict |-> d]   the text is the JSON object d
analyze_with_claude(reply) ==
    IF reply.kind = "object"
    THEN [f \in DOMAIN reply.dict \cup {"analysis_method"} |->
             IF f = "analysis_method" THEN "claude_ai" ELSE reply.dict[f]]
    ELSE None

\* Python truth value of a strategy's result (None and {} are false)
Truthy(result) == result # None /\ DOMAIN result # {}


(***************************************************************************)
(* Program constants                                                       *)
(***************************************************************************)
\* news_data[:10]
TopNews == 10

\* request_count >= 50
RateLimit == 50

\* elapsed < 60
RateWindow == 60

\* relevance_score >= 3
RelevanceThreshold == 3

\* [:5] of each risk category
TopRisk == 5

\* [:10] of the news feed
TopFeed == 10

(***************************************************************************)
(* Bounds and the inputs of the model                                      *)
(***************************************************************************)
\* pipeline runs in one behaviour (each run is one call of main)
MaxRuns == 2

Yes == <<"Y","e","s">>

No == <<"N","o">>

Maybe == <<"M","a","y","b","e">>

\* one event group as the Gamma API returns it: two markets with named
\* outcomes (different names) and a market whose outcome names are empty
Events1 ==
    << [ id |-> <<"e","1">>, title |-> <<"e","1">>, volume24hr |-> 5,
         markets |->
            << [ id |-> <<"1">>, slug |-> <<"b","t","c">>,
                 question |-> <<"W","i","l","l"," ","B","T","C"," ","u","p">>,
                 volume |-> 1000000,
                 outcomes |-> <<Yes, No>>, outcomePrices |-> <<70, 930>> ],
               [ id |-> <<"2">>, slug |-> <<"e","t","h">>,
                 question |-> <<"e","t","h"," ","u","p">>,
                 volume |-> 0,
                 outcomes |-> << <<>> >>, outcomePrices |-> <<150>> ],
               [ id |-> <<"3">>, slug |-> <<"s","o","l">>,
                 question |-> <<"s","o","l"," ","u","p">>,
                 volume |-> 10000,
                 outcomes |-> <<No, Maybe>>, outcomePrices |-> <<30, 970>> ] >> ] >>

(***************************************************************************)
(* scraper.py                                                              *)
(***************************************************************************)
\* max_retries=3
MaxRetries == 3

\* sorted_markets[:100]
TrendingLimit == 100

\* the same wait before every retry
Pow2_constant(n) == 1

\* 2 ** attempt
RECURSIVE Pow2(_)
Pow2(n) == IF n = 0 THEN 1 ELSE 2 * Pow2(n - 1)

\* what one requests.get of the Gamma API may do: answer with a list of event
\* groups, raise a RequestException (timeout, connection, HTTP status, bad
\* JSON), or let the code after it raise another exception
HttpOk(all_markets) == [kind |-> "ok", all_markets |-> all_markets]

RequestFailed == [kind |-> "request_exception"]

Unexpected == [kind |-> "exception"]

\* lines 46-53: sorted(all_markets, key=volume24hr, reverse=True)[:100]
trending_markets(all_markets) ==
    LET keyed == [ i \in DOMAIN all_markets |->
                     [m |-> all_markets[i], k |-> DictGet(all_markets[i], "volume24hr", 0)] ]
        sorted_markets == SortedDesc(keyed, "k")
    IN  Take([i \in DOMAIN sorted_markets |-> sorted_markets[i].m], TrendingLimit)

\* lines 97-104: the first market of every id, markets without an id dropped
RECURSIVE dedupe_by_id(_, _)
dedupe_by_id(markets, seen_ids) ==
    IF markets = <<>> THEN <<>>
    ELSE LET market_id == DictGet(Head(markets), "id", <<>>)
         IN  IF market_id # <<>> /\ market_id \notin seen_ids
             THEN <<Head(markets)>> \o dedupe_by_id(Tail(markets), seen_ids \cup {market_id})
             ELSE dedupe_by_id(Tail(markets), seen_ids)

\* lines 42-106. The crypto and closing-soon lists are taken from all_markets,
\* which trending_markets holds whole while there are at most TrendingLimit
\* event groups (as here), so the deduplication drops all they add.
final_markets(all_markets) == dedupe_by_id(trending_markets(all_markets), {})

\* lines 33-126: the attempts from `attempt` on; responses[k] is what attempt
\* k-1 meets. log has one entry per request sent, with the sleep after it.
RECURSIVE fetch_polymarket_markets(_, _)
fetch_polymarket_markets(responses, attempt) ==
    IF attempt >= MaxRetries THEN [markets |-> <<>>, log |-> <<>>]
    ELSE LET response == responses[attempt + 1]
             entry(failed, wait) ==
                 [ call |-> "markets", attempt |-> attempt, kind |-> response.kind,
                   failed |-> failed, wait |-> wait ]
         IN  IF response.kind = "ok"
             THEN [markets |-> final_markets(response.all_markets),
                   log |-> <<entry(FALSE, 0)>>]
             ELSE IF response.kind = "request_exception"
             THEN IF attempt < MaxRetries - 1
                  THEN LET rest == fetch_polymarket_markets(responses, attempt + 1)
                       IN  [markets |-> rest.markets,
                            log |-> <<entry(TRUE, Pow2(attempt))>> \o rest.log]
                  ELSE [markets |-> <<>>, log |-> <<entry(TRUE, 0)>>]
             ELSE [markets |-> <<>>, log |-> <<entry(TRUE, 0)>>]

\* time.sleep of every entry of a log
RECURSIVE Slept(_)
Slept(log) == IF log = <<>> THEN 0 ELSE Head(log).wait + Slept(Tail(log))

\* the Gamma API answers at once, with event groups or with none
FetchResults == { <<HttpOk(Events1)>>, <<HttpOk(<<>>)>> }

\* main goes on with no markets
FetchAborts_never(fetched) == FALSE

\* if not markets_data
FetchAborts(fetched) == fetched = <<>>

(***************************************************************************)
(* news_fetcher.py                                                         *)
(***************************************************************************)
RSS_SOURCES == <<"chaingpt", "cointelegraph", "decrypt", "cryptonews">>

\* hours=48
NewsHours == 48

\* datetime.now(timezone.utc) of the fetch, in hours
FetchHour == 100

\* an entry of a parsed feed; published is its hour, 0 if the feed gives none
Entry(title, published) == [title |-> title, link |-> <<"/">> \o title, published |-> published]

\* what one requests.get of a feed may do
FeedOk(entries) == [kind |-> "ok", entries |-> entries]

FeedFailed == [kind |-> "exception"]

\* str.strip() (blanks only)
RECURSIVE strip(_)
strip(s) ==
    IF s = <<>> THEN s
    ELSE IF Head(s) = " " THEN strip(Tail(s))
    ELSE IF s[Len(s)] = " " THEN strip(SubSeq(s, 1, Len(s) - 1))
    ELSE s

\* lines 49-76: the entries of one feed, appended to all_news. published_at
\* stands for the ISO text, 0 for None (the sort key takes None as '').
RECURSIVE add_entries(_, _, _)
add_entries(entries, source_name, all_news) ==
    IF entries = <<>> THEN all_news
    ELSE LET entry == Head(entries)
             title == strip(entry.title)
             seen_titles == {all_news[i].title : i \in DOMAIN all_news}
         IN  IF entry.published # 0 /\ entry.published < FetchHour - NewsHours
             THEN add_entries(Tail(entries), source_name, all_news)
             ELSE IF title # <<>> /\ title \notin seen_titles
             THEN add_entries(Tail(entries), source_name,
                     Append(all_news, [ title |-> title,
                                        link |-> entry.link,
                                        published_at |-> entry.published,
                                        source |-> source_name ]))
             ELSE add_entries(Tail(entries), source_name, all_news)

\* a feed that fails ends the loop
fetch_feeds_break(feeds, i, all_news) ==
    LET failing == {k \in i..Len(RSS_SOURCES) : feeds[k].kind # "ok"}
        stop == IF failing = {} THEN Len(RSS_SOURCES)
                ELSE CHOOSE k \in failing : \A j \in failing : k <= j
    IN  [ news |-> all_news,
          log |-> [ k \in 1..(stop - i + 1) |->
                      [ call |-> RSS_SOURCES[i + k - 1], attempt |-> 0,
                        kind |-> feeds[i + k - 1].kind,
                        failed |-> feeds[i + k - 1].kind # "ok", wait |-> 0 ] ] ]

\* lines 38-82: the feeds from source i on; a feed that fails is skipped
RECURSIVE fetch_feeds(_, _, _)
fetch_feeds(feeds, i, all_news) ==
    IF i > Len(RSS_SOURCES) THEN [news |-> all_news, log |-> <<>>]
    ELSE LET failed == feeds[i].kind # "ok"
             rest == fetch_feeds(feeds, i + 1,
                        IF failed THEN all_news
                        ELSE add_entries(feeds[i].entries, RSS_SOURCES[i], all_news))
         IN  [news |-> rest.news,
              log |-> << [ call |-> RSS_SOURCES[i], attempt |-> 0, kind |-> feeds[i].kind,
                           failed |-> failed, wait |-> 0 ] >> \o rest.log]

\* lines 32-92: newest first
fetch_crypto_news(feeds) ==
    LET fetched == fetch_feeds(feeds, 1, <<>>)
    IN  [news |-> SortedDesc(fetched.news, "published_at"), log |-> fetched.log]

\* the first feed answers with two entries, or no feed answers
NewsResults ==
    { << FeedOk(<< Entry(<<"Y","e","s"," ","b","t","c"," ","u","p">>, 0),
                   Entry(<<"e","t","h">>, 0) >>), FeedFailed, FeedFailed, FeedFailed >>,
      << FeedFailed, FeedFailed, FeedFailed, FeedFailed >> }

\* a well-formed judgment as the prompt asks for it
Judgment(score, affects) ==
    [ relevance_score |-> Pts(score),
      affects_outcomes |-> affects,
      impact_direction |-> "positive",
      confidence |-> "high",
      reasoning |-> "r" ]

ReplyError == [kind |-> "error"]

ReplyText == [kind |-> "text"]

ReplyArray == [kind |-> "array"]

ReplyObject(d) == [kind |-> "object", dict |-> d]

\* every reply of the AI service the model draws from
AllReplies ==
    { ReplyError, ReplyText, ReplyArray,
      ReplyObject(Judgment(8, <<Yes>>)),
      ReplyObject(DictPut(Judgment(1, <<>>), "analysis_method", "keyword_fallback")),
      ReplyObject([relevance_score |-> Pts(8)]),
      ReplyObject(Judgment(8, <<Maybe>>)) }

(***************************************************************************)
(* State                                                                   *)
(***************************************************************************)
VARIABLES
    pc,                   \* the step main is at
    run,                  \* number of the current run of main, from 1
    status,               \* what main returned (-1 while it runs)
    raised,               \* the step whose exception main caught ("" if none)
    markets_data,         \* main.py: result of fetch_polymarket_markets
    markets_with_metrics, \* main.py: result of enrich_with_risk_metrics
    news_data,            \* main.py: result of fetch_crypto_news
    news_analysis,        \* main.py: result of analyze_news_relevance
    dashboard_data,       \* main.py: result of build_dashboard_data
    dashboard_file,       \* frontend/data/dashboard_data.json (None if absent)
    cache_file,           \* data/news_analysis_cache.json: its 'cache' object
    claude_client,        \* analyze_news_relevance: TRUE if a client was built
    cache,                \* analyze_news_relevance: the loaded cache
    stats,                \* analyze_news_relevance: the five counters
    news_market_mapping,  \* analyze_news_relevance: the kept judgments
    request_count,        \* analyze_news_relevance: rate-limit counter
    start_time,           \* analyze_news_relevance: start of the rate window
    pos,                  \* analyze_news_relevance: <<news index, market index>> of the next pair
    now,                  \* time.time(), in seconds
    env,                  \* the outside world of this behaviour: what the two fetches may return,
                          \* the replies the AI service may give, the seconds an AI request takes
    steps,                \* history: the steps of main completed in this run, in order
    net,                  \* history: the requests of the two fetches of this run, in order
    calls,                \* history: strategies invoked for the last pair, in order
    ai_calls,             \* history: calls of analyze_with_claude in this run
    kw_calls,             \* history: calls of keyword_fallback_analysis in this run
    ai_times,             \* history: time of each AI request of this run
    last,                 \* history: the last pair processed
    computed,             \* history: every fresh judgment of every run, by cache key
    call,                 \* a function called on its own: its name and arguments
    ret                   \* what that call returned (None before it returns)

vars == << pc, run, status, raised, markets_data, markets_with_metrics, news_data,
           news_analysis, dashboard_data, dashboard_file, cache_file, claude_client,
           cache, stats, news_market_mapping, request_count, start_time, pos, now,
           env, steps, net, calls, ai_calls, kw_calls, ai_times, last, computed,
           call, ret >>

mainVars == << markets_data, markets_with_metrics, news_data, news_analysis,
               dashboard_data, dashboard_file >>

callVars == << call, ret >>

analyzerVars == << claude_client, cache, stats, news_market_mapping, request_count,
                   start_time, pos, now, calls, ai_calls, kw_calls, ai_times, last,
                   computed >>

ZeroStats ==
    [total_analyzed |-> 0, claude_ai |-> 0, keyword_fallback |-> 0, errors |-> 0, cached |-> 0]

NoReply == [kind |-> "none"]

NoPair ==
    [ key |-> <<>>, hit |-> FALSE, reply |-> NoReply, ai_result |-> None, result |-> None,
      names |-> <<>>, client |-> FALSE ]

\* no function is called on its own
NoCall == [fn |-> "main"]

\* main at step p of its first run, in the world e, with the enriched markets
\* and the news analysis it holds at that step
MainAt(p, done, e, markets, analysis) ==
    /\ pc = p
    /\ run = 1
    /\ status = -1
    /\ raised = ""
    /\ markets_data = <<>>
    /\ markets_with_metrics = markets
    /\ news_data = <<>>
    /\ news_analysis = analysis
    /\ dashboard_data = None
    /\ dashboard_file = None
    /\ cache_file = EmptyDict
    /\ claude_client = FALSE
    /\ cache = EmptyDict
    /\ stats = ZeroStats
    /\ news_market_mapping = <<>>
    /\ request_count = 0
    /\ start_time = 0
    /\ pos = <<1, 1>>
    /\ now = 0
    /\ env = e
    /\ steps = done
    /\ net = <<>>
    /\ calls = <<>>
    /\ ai_calls = 0
    /\ kw_calls = 0
    /\ ai_times = <<>>
    /\ last = NoPair
    /\ computed = EmptyDict

InitAt(p, done, e, markets, analysis) ==
    /\ MainAt(p, done, e, markets, analysis)
    /\ call = NoCall
    /\ ret = None

World == [markets |-> FetchResults, news |-> NewsResults, replies |-> AllReplies, latency |-> 0]

\* main is entered for the first time: no cache file, no dashboard file
Init == InitAt("fetch_markets", <<>>, World, <<>>, None)


(***************************************************************************)
(* aggregator.py                                                           *)
(***************************************************************************)
\* the items x of s with Pred(x), in the order of s
RECURSIVE SelectSeqBy(_, _)
SelectSeqBy(s, keep) ==
    IF s = <<>> THEN <<>>
    ELSE IF keep[1] THEN <<Head(s)>> \o SelectSeqBy(Tail(s), Tail(keep))
         ELSE SelectSeqBy(Tail(s), Tail(keep))

\* lines 19-36: the medium and low outcomes of every market, in traversal order
RECURSIVE all_outcomes(_)
all_outcomes(markets) ==
    IF markets = <<>> THEN <<>>
    ELSE LET market == Head(markets)
             rows == [ i \in DOMAIN market.outcomes |->
                         LET outcome == market.outcomes[i]
                         IN  [ market_title |-> market.question,
                               market_url |-> market.url,
                               outcome_name |-> outcome.name,
                               probability |-> outcome.probability,
                               multiplier |-> outcome.risk_metrics.multiplier,
                               score |-> outcome.risk_metrics.score,
                               risk_category |-> outcome.risk_metrics.risk_category,
                               volume |-> outcome.volume ] ]
         IN  SelectSeqBy(rows, [i \in DOMAIN rows |-> rows[i].risk_category \in {"medium", "low"}])
             \o all_outcomes(Tail(markets))

\* the outcomes of one category cut to 5 in traversal order, not sorted
top_of_category_unsorted(outcomes, category) ==
    Take(SelectSeqBy(outcomes,
                     [i \in DOMAIN outcomes |-> outcomes[i].risk_category = category]),
         TopRisk)

\* lines 39-49: the outcomes of one category, best score first, cut to 5
top_of_category(outcomes, category) ==
    Take(SortedDesc(SelectSeqBy(outcomes,
                                [i \in DOMAIN outcomes |-> outcomes[i].risk_category = category]),
                    "score"),
         TopRisk)

build_risk_categories_widget(markets) ==
    [ medium_risk |-> top_of_category(all_outcomes(markets), "medium"),
      low_risk |-> top_of_category(all_outcomes(markets), "low") ]

\* one group per item: the market_id of every item, repeats included
group_ids_repeated(mapping, seen) == [i \in DOMAIN mapping |-> mapping[i].market_id]

\* the keys of news_by_market in insertion order: each market_id at its first item
RECURSIVE group_ids(_, _)
group_ids(mapping, seen) ==
    IF mapping = <<>> THEN <<>>
    ELSE IF Head(mapping).market_id \in seen THEN group_ids(Tail(mapping), seen)
         ELSE <<Head(mapping).market_id>>
              \o group_ids(Tail(mapping), seen \cup {Head(mapping).market_id})

RelevanceOf(x) == DictGet(x, "relevance_score", 0)

\* the last item of the group with the top score
best_news_last(mapping, market_id) ==
    LET news_list == SelectSeqBy(mapping, [i \in DOMAIN mapping |-> mapping[i].market_id = market_id])
        i == CHOOSE i \in DOMAIN news_list :
                /\ \A j \in DOMAIN news_list : RelevanceOf(news_list[j]) <= RelevanceOf(news_list[i])
                /\ \A j \in (i + 1)..Len(news_list) :
                        RelevanceOf(news_list[j]) < RelevanceOf(news_list[i])
    IN  news_list[i]

\* max(news_list, key=relevance_score): the first item of the group with the top score
best_news(mapping, market_id) ==
    LET news_list == SelectSeqBy(mapping, [i \in DOMAIN mapping |-> mapping[i].market_id = market_id])
        i == CHOOSE i \in DOMAIN news_list :
                /\ \A j \in DOMAIN news_list : RelevanceOf(news_list[j]) <= RelevanceOf(news_list[i])
                /\ \A j \in 1..(i - 1) : RelevanceOf(news_list[j]) < RelevanceOf(news_list[i])
    IN  news_list[i]

\* next((m for m in markets_data if m.get('market_id') == market_id), None)
find_market(markets, market_id) ==
    IF \E i \in DOMAIN markets : markets[i].market_id = market_id
    THEN markets[CHOOSE i \in DOMAIN markets :
                    /\ markets[i].market_id = market_id
                    /\ \A j \in 1..(i - 1) : markets[j].market_id # market_id]
    ELSE None

\* lines 75-94: the best news of each group whose market is known, in group order
RECURSIVE feed_entries(_, _, _)
feed_entries(ids, mapping, markets) ==
    IF ids = <<>> THEN <<>>
    ELSE LET best == best_news(mapping, Head(ids))
             market == find_market(markets, Head(ids))
         IN  (IF market # None
              THEN << [ news_title |-> best.news_title,
                        news_link |-> best.news_link,
                        market_title |-> market.question,
                        market_url |-> market.url,
                        relevance_score |-> RelevanceOf(best),
                        affects_outcomes |-> best.affects_outcomes,
                        impact_direction |-> best.impact_direction,
                        confidence |-> best.confidence,
                        reasoning |-> best.reasoning ] >>
              ELSE <<>>)
             \o feed_entries(Tail(ids), mapping, markets)

build_news_feed_widget(analysis, markets) ==
    LET news_mapping == DictGet(analysis, "news_market_mapping", <<>>)
    IN  Take(SortedDesc(feed_entries(group_ids(news_mapping, {}), news_mapping, markets),
                        "relevance_score"),
             TopFeed)

build_dashboard_data(markets, analysis) ==
    [ widgets |->
        [ risk_categories |-> build_risk_categories_widget(markets),
          news_feed |-> build_news_feed_widget(analysis, markets) ],
      metadata |->
        [ total_markets |-> Len(markets),
          trending_count |-> 0,
          crypto_count |-> 0,
          news_analyzed |-> DictGet(DictGet(analysis, "stats", ZeroStats), "total_analyzed", 0) ] ]

(***************************************************************************)
(* news_analyzer.py: analyze_news_relevance                                *)
(***************************************************************************)
\* [o.get('name', '') for o in outcomes if o.get('name')]
\* [o.get('name', '') for o in outcomes]: empty names are kept
outcome_names_unfiltered(market) ==
    [i \in DOMAIN market.outcomes |-> market.outcomes[i].name]

\* line 187
outcome_names(market) ==
    LET names == [i \in DOMAIN market.outcomes |-> market.outcomes[i].name]
    IN  FilterSeq(names, {x \in Range(names) : x # <<>>})

\* the cache is never consulted
CacheHit_never(c, cache_key) == FALSE

\* cache_key in cache
CacheHit(c, cache_key) == cache_key \in DOMAIN c

\* if request_count >= 50
RateLimited(count) == count >= RateLimit

\* wait_time of the rate-limit check at time t (0: no sleep)
WaitTime(t, start) == IF t - start < RateWindow THEN RateWindow - (t - start) ELSE 0

\* if not result: the keyword strategy runs
NeedsFallback(result) == ~Truthy(result)

\* the strategy counter a fresh judgment is counted under
CountFresh(st, ai_ok) ==
    IF ai_ok THEN [st EXCEPT !.claude_ai = @ + 1]
    ELSE [st EXCEPT !.keyword_fallback = @ + 1]

\* result.get('relevance_score', 0) >= 3
IsRelevant(result) == DictGet(result, "relevance_score", 0) >= Pts(RelevanceThreshold)

\* the keys the mapping entry reads with result[...]
MappingFields ==
    {"relevance_score", "affects_outcomes", "impact_direction", "confidence",
     "reasoning", "analysis_method"}

\* result[...] raises KeyError
MappingRaises(result) == ~(MappingFields \subseteq DOMAIN result)

MappingEntry(news_idx, news, market, result) ==
    [ news_id |-> news_idx,
      news_title |-> news.title,
      news_link |-> news.link,
      market_id |-> market.market_id,
      market_question |-> market.question,
      market_url |-> market.url,
      relevance_score |-> result["relevance_score"],
      affects_outcomes |-> result["affects_outcomes"],
      impact_direction |-> result["impact_direction"],
      confidence |-> result["confidence"],
      reasoning |-> result["reasoning"],
      analysis_method |-> result["analysis_method"] ]

top_news == Take(news_data, TopNews)

LoopDone == pos[1] > Len(top_news) \/ markets_with_metrics = <<>>

NextPos ==
    IF pos[2] < Len(markets_with_metrics) THEN <<pos[1], pos[2] + 1>> ELSE <<pos[1] + 1, 1>>

\* lines 143-175: client, load_cache, counters
AnalyzeStart ==
    /\ pc = "analyze"
    /\ \E client \in BOOLEAN : claude_client' = client
    /\ cache' = cache_file
    /\ stats' = ZeroStats
    /\ news_market_mapping' = <<>>
    /\ request_count' = 0
    /\ start_time' = now
    /\ pos' = <<1, 1>>
    /\ calls' = <<>>
    /\ ai_calls' = 0
    /\ kw_calls' = 0
    /\ ai_times' = <<>>
    /\ last' = NoPair
    /\ pc' = "analyze_loop"
    /\ UNCHANGED << callVars, run, status, raised, mainVars, cache_file, now, env, net, steps, computed >>

\* lines 181-242: one iteration of the inner loop, for the pair at pos
AnalyzePair ==
    /\ pc = "analyze_loop"
    /\ ~LoopDone
    /\ \E reply \in env.replies :
        LET news == top_news[pos[1]]
            market == markets_with_metrics[pos[2]]
            names == outcome_names(market)
            cache_key == get_cache_key(news.title, market.market_id)
            hit == CacheHit(cache, cache_key)
            use_ai == ~hit /\ claude_client
            limited == use_ai /\ RateLimited(request_count)
            t_req == IF limited THEN now + WaitTime(now, start_time) ELSE now
            ai_result == IF use_ai THEN analyze_with_claude(reply) ELSE None
            ai_ok == use_ai /\ Truthy(ai_result)
            use_kw == ~hit /\ NeedsFallback(ai_result)
            result == IF hit THEN cache[cache_key]
                      ELSE IF use_kw
                           THEN keyword_fallback_analysis(news.title, market.question, names)
                           ELSE ai_result
            keep == IsRelevant(result)
            fails == keep /\ MappingRaises(result)
        IN  IF names = <<>>
            THEN /\ pos' = NextPos
                 /\ UNCHANGED << callVars, pc, status, raised, cache, stats, news_market_mapping,
                                 request_count, start_time, now, calls, ai_calls,
                                 kw_calls, ai_times, last, computed >>
            ELSE /\ cache' = IF hit THEN cache ELSE DictPut(cache, cache_key, result)
                 /\ stats' = [(IF hit THEN [stats EXCEPT !.cached = @ + 1]
                               ELSE CountFresh(stats, ai_ok))
                              EXCEPT !.total_analyzed = @ + 1]
                 /\ request_count' = (IF limited THEN 0 ELSE request_count)
                                     + (IF ai_ok THEN 1 ELSE 0)
                 /\ start_time' = IF limited THEN t_req ELSE start_time
                 /\ now' = IF use_ai THEN t_req + env.latency ELSE now
                 /\ calls' = (IF use_ai THEN <<"claude_ai">> ELSE <<>>)
                             \o (IF use_kw THEN <<"keyword_fallback">> ELSE <<>>)
                 /\ ai_calls' = ai_calls + (IF use_ai THEN 1 ELSE 0)
                 /\ kw_calls' = kw_calls + (IF use_kw THEN 1 ELSE 0)
                 /\ ai_times' = IF use_ai THEN Append(ai_times, t_req) ELSE ai_times
                 /\ computed' = IF hit THEN computed ELSE DictPut(computed, cache_key, result)
                 /\ last' = [ key |-> cache_key, hit |-> hit,
                              reply |-> IF use_ai THEN reply ELSE NoReply,
                              ai_result |-> ai_result, result |-> result,
                              names |-> names, client |-> claude_client ]
                 /\ IF fails
                    THEN /\ pc' = "done"
                         /\ status' = 1
                         /\ raised' = "analyze"
                         /\ UNCHANGED << callVars, news_market_mapping, pos >>
                    ELSE /\ news_market_mapping' =
                                IF keep
                                THEN Append(news_market_mapping,
                                            MappingEntry(pos[1] - 1, news, market, result))
                                ELSE news_market_mapping
                         /\ pos' = NextPos
                         /\ UNCHANGED << callVars, pc, status, raised >>
    /\ UNCHANGED << callVars, run, mainVars, cache_file, claude_client, env, net, steps >>

\* lines 246-258: save_cache, save_analysis, return
AnalyzeFinish ==
    /\ pc = "analyze_loop"
    /\ LoopDone
    /\ cache_file' = cache
    /\ news_analysis' = [news_market_mapping |-> news_market_mapping, stats |-> stats]
    /\ pc' = "aggregate"
    /\ steps' = Append(steps, "analyze")
    /\ UNCHANGED << callVars, run, status, raised, markets_data, markets_with_metrics, news_data,
                    dashboard_data, dashboard_file, analyzerVars, env, net >>


(***************************************************************************)
(* main.py                                                                 *)
(***************************************************************************)
\* lines 42-50: step 1; an empty fetch ends main with 1
FetchMarkets ==
    /\ pc = "fetch_markets"
    /\ \E responses \in env.markets :
        LET fetched == fetch_polymarket_markets(responses, 0)
        IN  /\ markets_data' = fetched.markets
            /\ net' = net \o fetched.log
            /\ now' = now + Slept(fetched.log)
            /\ IF FetchAborts(fetched.markets)
               THEN pc' = "done" /\ status' = 1
               ELSE pc' = "enrich" /\ status' = status
    /\ steps' = Append(steps, "fetch_markets")
    /\ UNCHANGED << callVars, run, raised, markets_with_metrics, news_data, news_analysis,
                    dashboard_data, dashboard_file, cache_file, claude_client, cache, stats,
                    news_market_mapping, request_count, start_time, pos, calls, ai_calls,
                    kw_calls, ai_times, last, computed, env >>

\* lines 52-55: step 2
Enrich ==
    /\ pc = "enrich"
    /\ markets_with_metrics' = enrich_with_risk_metrics(markets_data)
    /\ pc' = "fetch_news"
    /\ steps' = Append(steps, "enrich")
    /\ UNCHANGED << callVars, run, status, raised, markets_data, news_data, news_analysis,
                    dashboard_data, dashboard_file, cache_file, analyzerVars, env, net >>

\* lines 57-60: step 3
FetchNews ==
    /\ pc = "fetch_news"
    /\ \E feeds \in env.news :
        LET fetched == fetch_crypto_news(feeds)
        IN  /\ news_data' = fetched.news
            /\ net' = net \o fetched.log
    /\ pc' = "analyze"
    /\ steps' = Append(steps, "fetch_news")
    /\ UNCHANGED << callVars, run, status, raised, markets_data, markets_with_metrics, news_analysis,
                    dashboard_data, dashboard_file, cache_file, analyzerVars, env >>

\* lines 70-75: step 5
BuildDashboard ==
    /\ pc = "aggregate"
    /\ dashboard_data' = build_dashboard_data(markets_with_metrics, news_analysis)
    /\ pc' = "write"
    /\ steps' = Append(steps, "aggregate")
    /\ UNCHANGED << callVars, run, status, raised, markets_data, markets_with_metrics, news_data,
                    news_analysis, dashboard_file, cache_file, analyzerVars, env, net >>

\* lines 77-93: the dashboard file is written and main returns 0, or open()
\* raises and main returns 1
WriteDashboard ==
    /\ pc = "write"
    /\ \E written \in BOOLEAN :
        IF written
        THEN /\ dashboard_file' = dashboard_data
             /\ status' = 0
             /\ raised' = raised
             /\ steps' = Append(steps, "write")
        ELSE /\ dashboard_file' = dashboard_file
             /\ status' = 1
             /\ raised' = "write"
             /\ steps' = steps
    /\ pc' = "done"
    /\ UNCHANGED << callVars, run, markets_data, markets_with_metrics, news_data, news_analysis,
                    dashboard_data, cache_file, analyzerVars, env, net >>

\* the pipeline is started again (cron, or by hand): the files stay
NextRun ==
    /\ pc = "done"
    /\ run < MaxRuns
    /\ run' = run + 1
    /\ pc' = "fetch_markets"
    /\ status' = -1
    /\ raised' = ""
    /\ markets_data' = <<>>
    /\ markets_with_metrics' = <<>>
    /\ news_data' = <<>>
    /\ news_analysis' = None
    /\ dashboard_data' = None
    /\ steps' = <<>>
    /\ net' = <<>>
    /\ UNCHANGED << callVars, dashboard_file, cache_file, analyzerVars, env >>

Next ==
    \/ FetchMarkets
    \/ Enrich
    \/ FetchNews
    \/ AnalyzeStart
    \/ AnalyzePair
    \/ AnalyzeFinish
    \/ BuildDashboard
    \/ WriteDashboard
    \/ NextRun

Spec == Init /\ [][Next]_vars


(***************************************************************************)
(* The rate limit: a run with more than RateLimit pairs                    *)
(***************************************************************************)
\* markets of the run with two named outcomes each (one more has no named
\* outcome)
RateMarkets == 6

\* news items fetched (the first TopNews are analysed)
RateNews == 11

TwoDigits(i) == << Digits[(i \div 10) + 1], Digits[(i % 10) + 1] >>

RateEvents ==
    << [ id |-> <<"e">>, title |-> <<"e">>, volume24hr |-> 5,
         markets |->
            [ i \in 1..RateMarkets |->
                [ id |-> TwoDigits(i), slug |-> <<"m">> \o TwoDigits(i),
                  question |-> <<"q">> \o TwoDigits(i),
                  volume |-> 100000,
                  outcomes |-> <<Yes, No>>, outcomePrices |-> <<150, 850>> ] ]
            \o << [ id |-> <<"x">>, slug |-> <<"x">>, question |-> <<"q","x">>,
                    volume |-> 0,
                    outcomes |-> << <<>> >>, outcomePrices |-> <<150>> ] >> ] >>

RateNewsList == [ i \in 1..RateNews |-> Entry(<<"n">> \o TwoDigits(i), 0) ]

\* the AI service is down, or it answers every request; a request takes 1 s
RateWorlds ==
    { [ markets |-> {<<HttpOk(RateEvents)>>},
        news |-> {<<FeedOk(RateNewsList), FeedFailed, FeedFailed, FeedFailed>>},
        replies |-> {r}, latency |-> 1 ] :
        r \in {ReplyError, ReplyObject(Judgment(8, <<Yes>>))} }

InitRate == \E w \in RateWorlds : InitAt("fetch_markets", <<>>, w, <<>>, None)

SpecRate == InitRate /\ [][Next]_vars

(***************************************************************************)
(* The two fetches: every way the requests of a run may fail               *)
(***************************************************************************)
\* four event groups as the Gamma API returns them: the second has the
\* larger volume24hr, the third repeats the id of the first, the fourth has
\* no id
Events2 ==
    << [ id |-> <<"a">>, title |-> <<"b","t","c">>, volume24hr |-> 1,
         markets |-> << Events1[1].markets[1] >> ],
       [ id |-> <<"b">>, title |-> <<"s","o","l">>, volume24hr |-> 9,
         markets |-> << Events1[1].markets[3] >> ],
       [ id |-> <<"a">>, title |-> <<"e","t","h">>, volume24hr |-> 0,
         markets |-> << Events1[1].markets[2] >> ],
       [ title |-> <<"x">>, volume24hr |-> 5,
         markets |-> << Events1[1].markets[2] >> ] >>

\* what the attempts of the market fetch meet, attempt by attempt: a request
\* is sent again only after a RequestException, MaxRetries times at most
FetchScenarios ==
    { s \in UNION { [1..n -> {HttpOk(Events2), HttpOk(<<>>), RequestFailed, Unexpected}] :
                        n \in 1..MaxRetries } :
        /\ \A i \in 1..(Len(s) - 1) : s[i] = RequestFailed
        /\ Len(s) = MaxRetries \/ s[Len(s)] # RequestFailed }

\* the entries of the four feeds: a title given twice, an entry older than
\* NewsHours, entries without a date, a title to strip, an empty title
FeedEntries ==
    << << Entry(<<"Y","e","s"," ","b","t","c"," ","u","p">>, 95), Entry(<<"e","t","h">>, 0) >>,
       << Entry(<<"Y","e","s"," ","b","t","c"," ","u","p">>, 97), Entry(<<"o","l","d">>, 40) >>,
       << Entry(<<"s","o","l"," ","u","p"," ","N","o">>, 99) >>,
       << Entry(<<" ","N","o"," ">>, 0), Entry(<<" ">>, 98) >> >>

\* each feed answers or fails
FeedScenarios ==
    { [ i \in DOMAIN RSS_SOURCES |-> IF i \in up THEN FeedOk(FeedEntries[i]) ELSE FeedFailed ] :
        up \in SUBSET (DOMAIN RSS_SOURCES) }

\* a world answers every run the same way; its AI service is down, so every
\* pair is judged by the keyword strategy
FetchWorlds ==
    { [markets |-> {m}, news |-> {f}, replies |-> {ReplyError}, latency |-> 0] :
        m \in FetchScenarios, f \in FeedScenarios }

InitFetch == \E w \in FetchWorlds : InitAt("fetch_markets", <<>>, w, <<>>, None)

SpecFetch == InitFetch /\ [][Next]_vars

(***************************************************************************)
(* The widget builders on their own: main at step 5, with any inputs       *)
(***************************************************************************)
StepsBeforeAggregate == <<"fetch_markets", "enrich", "fetch_news", "analyze">>

NextAggregate == BuildDashboard

\* outcomes over all markets of a risk-widget input
MaxOutcomes == 6

OutcomeKinds ==
    { [risk_category |-> "medium", score |-> 1], [risk_category |-> "medium", score |-> 2],
      [risk_category |-> "low", score |-> 1], [risk_category |-> "low", score |-> 2],
      [risk_category |-> "other", score |-> 1] }

RiskOutcome(kind, i) ==
    [ name |-> <<"o">> \o TwoDigits(i),
      price |-> 100,
      probability |-> 100,
      volume |-> 0,
      risk_metrics |->
          [ score |-> kind.score, multiplier |-> 1000, expected_value |-> 0,
            kelly_fraction |-> 0, volume_weight |-> 1000,
            risk_category |-> kind.risk_category ] ]

\* markets of two outcomes each (the last of one, if MaxOutcomes is odd)
RiskMarkets(kinds) ==
    [ m \in 1..((MaxOutcomes + 1) \div 2) |->
        [ market_id |-> TwoDigits(m),
          question |-> <<"q">> \o TwoDigits(m),
          url |-> <<"/">> \o TwoDigits(m),
          volume |-> 0,
          outcomes |-> [ k \in 1..(IF 2 * m <= MaxOutcomes THEN 2 ELSE 1) |->
                           RiskOutcome(kinds[2 * (m - 1) + k], 2 * (m - 1) + k) ] ] ]

NoAnalysis == [news_market_mapping |-> <<>>, stats |-> ZeroStats]

InitRisk ==
    \E kinds \in [1..MaxOutcomes -> OutcomeKinds] :
        InitAt("aggregate", StepsBeforeAggregate, World, RiskMarkets(kinds), NoAnalysis)

SpecRisk == InitRisk /\ [][NextAggregate]_vars

\* markets of a news-feed input
FeedMarkets == 11

FeedMarketList(n) ==
    [ m \in 1..n |->
        [ market_id |-> TwoDigits(m),
          question |-> <<"q">> \o TwoDigits(m),
          url |-> <<"/">> \o TwoDigits(m),
          volume |-> 0,
          outcomes |-> <<>> ] ]

FeedItem(news_idx, m, score) ==
    [ news_id |-> news_idx,
      news_title |-> <<"n">> \o TwoDigits(news_idx),
      news_link |-> <<"/">> \o TwoDigits(news_idx),
      market_id |-> TwoDigits(m),
      market_question |-> <<"q">> \o TwoDigits(m),
      market_url |-> <<"/">> \o TwoDigits(m),
      relevance_score |-> score,
      affects_outcomes |-> <<>>,
      impact_direction |-> "neutral",
      confidence |-> "low",
      reasoning |-> "r",
      analysis_method |-> "keyword_fallback" ]

FeedScores == {Pts(3), Pts(8)}

\* news 0 judged against each of the n markets, then possibly one judgment of
\* news 1 against the first or the last of them or against a market that is
\* not in the list
FeedMappings(n) ==
    { [m \in 1..n |-> FeedItem(0, m, scores[m])] \o extra :
        scores \in [1..n -> FeedScores],
        extra \in {<<>>} \cup { <<FeedItem(1, m, sc)>> : m \in {1, n, n + 1}, sc \in FeedScores } }

InitFeed ==
    \E n \in {2, FeedMarkets} : \E mapping \in FeedMappings(n) :
        InitAt("aggregate", StepsBeforeAggregate, World, FeedMarketList(n),
               [ news_market_mapping |-> mapping,
                 stats |-> [ZeroStats EXCEPT !.total_analyzed = Len(mapping)] ])

SpecFeed == InitFeed /\ [][NextAggregate]_vars


(***************************************************************************)
(* The pure functions called on their own, as the tests call them          *)
(***************************************************************************)
Returned(value) == [value |-> value]

\* probabilities (thousandths) and multipliers (hundredths) at, next to and
\* between the thresholds of categorize_risk
Probabilities ==
    {0, 10, 49, 50, 51, 75, 99, 100, 101, 150, 199, 200, 201, 400, 599, 600, 601, 800, 1000}

Multipliers ==
    {0, 100, 199, 200, 201, 499, 500, 501, 750, 999, 1000, 1001, 1500, 1999, 2000, 2001, 3000}

CategorizeCalls ==
    { [fn |-> "categorize_risk", probability |-> p, multiplier |-> m] :
        p \in Probabilities, m \in Multipliers }

\* probability and price in [0, 1] (thousandths), volume >= 0
ScoreCalls ==
    { [fn |-> "calculate_risk_reward_score", probability |-> p, price |-> c, volume |-> v] :
        p \in {0, 30, 70, 500, 996, 1000},
        c \in {0, 1, 30, 70, 500, 996, 1000},
        v \in {0, 1, 10000, 100000, 1000000, 100000000} }

Letters == <<"b","c","d","e","f","g","h","i","j","k","l">>

\* "b c d e f g h i j k l": eleven tokens
ElevenTokens == [i \in 1..(2 * Len(Letters) - 1) |-> IF i % 2 = 1 THEN Letters[(i + 1) \div 2] ELSE " "]

KeywordTitles ==
    { <<"Y","e","s"," ","b","t","c"," ","u","p">>,
      ElevenTokens \o <<" ","N","O">>,
      <<"W","I","L","L"," ","t","h","e"," "," ","B","T","C">>,
      <<>> }

KeywordQuestions ==
    { <<"W","i","l","l"," ","B","T","C"," ","u","p">>,
      ElevenTokens,
      <<"t","h","e"," ","w","i","l","l">>,
      <<"b","t","c"," "," ","B","T","C"," ","b","t","c">> }

KeywordOutcomes ==
    { <<Yes, No>>, <<No, Yes>>, <<>>, << <<>> >>, <<Maybe>>, <<Yes, Yes>> }

KeywordCalls ==
    { [fn |-> "keyword_fallback_analysis", news_title |-> t, market_question |-> q,
       market_outcomes |-> o] :
        t \in KeywordTitles, q \in KeywordQuestions, o \in KeywordOutcomes }

\* titles and market ids, with and without the separator of the cache key
KeyTitles == { <<"a">>, <<"a",":","b">>, <<"a",":">>, <<>> }

KeyIds == { <<"c">>, <<"b",":","c">>, <<"1">>, <<>> }

\* get_cache_key for two pairs
KeyCalls ==
    { [fn |-> "get_cache_key", news_title |-> t1, market_id |-> m1,
       other_title |-> t2, other_id |-> m2] :
        t1 \in KeyTitles, m1 \in KeyIds, t2 \in KeyTitles, m2 \in KeyIds }

\* the numeral of k / 10^decimals with the given number of decimals
PriceStr(k, decimals) ==
    << Digits[(k \div Pow10(decimals)) + 1], "." >>
    \o [ i \in 1..decimals |-> Digits[((k \div Pow10(decimals - i)) % 10) + 1] ]

\* prices in (0, 1] to five decimals: around each threshold of the
\* categories, and between them
FivePlacePrices ==
    {1, 7000, 32000, 45000, 99999, 100000}
    \cup 4980..5020 \cup 9990..10010 \cup 19990..20010 \cup 59990..60010

\* the same to three decimals
ThreePlacePrices == {1, 49, 50, 51, 70, 100, 101, 200, 201, 600, 601, 750, 1000}

EnrichCalls ==
    { [fn |-> "enrich_with_risk_metrics", price_str |-> PriceStr(k, 5)] :
        k \in FivePlacePrices }
    \cup { [fn |-> "enrich_with_risk_metrics", price_str |-> PriceStr(k, 3)] :
        k \in ThreePlacePrices }

CanCall(fn) == pc = "call" /\ call.fn = fn /\ ret = None

Return(value) ==
    /\ ret' = Returned(value)
    /\ UNCHANGED << call, pc, run, status, raised, mainVars, cache_file, analyzerVars, env,
                    steps, net >>

CategorizeRisk ==
    /\ CanCall("categorize_risk")
    /\ Return(categorize_risk(call.probability, call.multiplier))

CalculateRiskRewardScore ==
    /\ CanCall("calculate_risk_reward_score")
    /\ Return(calculate_risk_reward_score(call.probability, call.price, call.volume))

KeywordFallbackAnalysis ==
    /\ CanCall("keyword_fallback_analysis")
    /\ Return(keyword_fallback_analysis(call.news_title, call.market_question,
                                        call.market_outcomes))

GetCacheKey ==
    /\ CanCall("get_cache_key")
    /\ Return(<< get_cache_key(call.news_title, call.market_id),
                 get_cache_key(call.other_title, call.other_id) >>)

EnrichOutcome ==
    /\ CanCall("enrich_with_risk_metrics")
    /\ Return(enrich_outcome(call.price_str))

NextCall ==
    \/ CategorizeRisk
    \/ CalculateRiskRewardScore
    \/ KeywordFallbackAnalysis
    \/ GetCacheKey
    \/ EnrichOutcome

InitCall ==
    /\ MainAt("call", <<>>, World, <<>>, None)
    /\ call \in CategorizeCalls \cup ScoreCalls \cup KeywordCalls \cup KeyCalls
                 \cup EnrichCalls
    /\ ret = None

SpecCall == InitCall /\ [][NextCall]_vars

(***************************************************************************)
(* Properties                                                              *)
(***************************************************************************)
\* the pair the inner loop is about to process has a named outcome
AtPair ==
    /\ pc = "analyze_loop"
    /\ ~LoopDone
    /\ outcome_names(markets_with_metrics[pos[2]]) # <<>>

PairKey == get_cache_key(top_news[pos[1]].title, markets_with_metrics[pos[2]].market_id)

ScoreAtLeast(result, points) == DictGet(result, "relevance_score", 0) >= 2 * points

\* C1: a pair whose cache key is in the cache gets the cached judgment; no
\* strategy is invoked, the claude_ai and keyword_fallback counters and the
\* rate-limit counter stay, the cached counter grows by one and the cache is
\* left as it is.
C1_CacheHitServed ==
    [][ (AtPair /\ PairKey \in DOMAIN cache) =>
            /\ last'.key = PairKey
            /\ last'.hit
            /\ last'.result = cache[PairKey]
            /\ calls' = <<>>
            /\ ai_calls' = ai_calls
            /\ kw_calls' = kw_calls
            /\ stats'.claude_ai = stats.claude_ai
            /\ stats'.keyword_fallback = stats.keyword_fallback
            /\ stats'.cached = stats.cached + 1
            /\ stats'.errors = stats.errors
            /\ request_count' = request_count
            /\ cache' = cache ]_vars

\* a cache hit was served in a run that has an AI client
C1_Witness == last.hit /\ last.client /\ stats.cached > 0 /\ calls = <<>>

\* C2: analyze_news_relevance never raises, whatever the AI replies.
C2_ClassificationNeverFails == raised # "analyze"

\* C3: every window of RateWindow seconds that starts at an AI request holds
\* at most RateLimit AI requests (successful or failed).
C3_RateCeiling ==
    \A i \in DOMAIN ai_times :
        Cardinality({j \in DOMAIN ai_times :
                        j >= i /\ ai_times[j] - ai_times[i] < RateWindow}) <= RateLimit

\* C4: on a cache miss the AI strategy runs exactly once and first if a client
\* is configured; a reply that is no JSON object gives None; the keyword
\* strategy runs iff there is no client or the AI gave None; exactly one of
\* claude_ai / keyword_fallback grows, the one of the strategy that produced
\* the judgment, and the stored judgment names that strategy.
C4_FallbackOrder ==
    [][ (AtPair /\ PairKey \notin DOMAIN cache) =>
            LET ai == "claude_ai"
                kw == "keyword_fallback"
                producer == calls'[Len(calls')]
            IN  /\ calls' \in { <<ai>>, <<ai, kw>>, <<kw>> }
                /\ claude_client <=> calls'[1] = ai
                /\ ai_calls' = ai_calls + (IF claude_client THEN 1 ELSE 0)
                /\ last'.reply.kind # "object" => last'.ai_result = None
                /\ last'.ai_result # None =>
                        \A f \in DOMAIN last'.reply.dict :
                            f # "analysis_method" => last'.ai_result[f] = last'.reply.dict[f]
                /\ (kw \in Range(calls')) <=> (~claude_client \/ last'.ai_result = None)
                /\ kw_calls' = kw_calls + (IF kw \in Range(calls') THEN 1 ELSE 0)
                /\ stats'.claude_ai = stats.claude_ai + (IF producer = ai THEN 1 ELSE 0)
                /\ stats'.keyword_fallback = stats.keyword_fallback + (IF producer = kw THEN 1 ELSE 0)
                /\ stats'.cached = stats.cached
                /\ PairKey \in DOMAIN cache'
                /\ DictGet(cache'[PairKey], "analysis_method", "") = producer ]_vars

\* the AI was asked, gave no judgment, and the keyword strategy ran after it
C4_Witness ==
    /\ calls = <<"claude_ai", "keyword_fallback">>
    /\ last.reply.kind = "text"
    /\ last.result.analysis_method = "keyword_fallback"
    /\ stats.keyword_fallback > 0

\* C5: no entry of the persisted cache or of the loaded cache is removed or
\* changed, and a run that loads the cache finds every judgment that any
\* earlier run computed.
C5_CacheAppendOnlyAndServed ==
    [][ /\ \A k \in DOMAIN cache_file :
            k \in DOMAIN cache_file' /\ cache_file'[k] = cache_file[k]
        /\ pc = "analyze_loop" =>
            \A k \in DOMAIN cache : k \in DOMAIN cache' /\ cache'[k] = cache[k]
        /\ pc = "analyze" =>
            \A k \in DOMAIN computed : k \in DOMAIN cache' /\ cache'[k] = computed[k] ]_vars

InMapping(key) ==
    \E i \in DOMAIN news_market_mapping :
        get_cache_key(news_market_mapping[i].news_title, news_market_mapping[i].market_id) = key

\* C6: the pair just processed is in news_market_mapping iff its judgment
\* scores at least 3; nothing below 3 is in the mapping or in the news feed.
C6_RelevanceFilter ==
    /\ last.key # <<>> => (InMapping(last.key) <=> ScoreAtLeast(last.result, 3))
    /\ \A i \in DOMAIN news_market_mapping : ScoreAtLeast(news_market_mapping[i], 3)
    /\ dashboard_data # None =>
        \A i \in DOMAIN dashboard_data.widgets.news_feed :
            ScoreAtLeast(dashboard_data.widgets.news_feed[i], 3)

\* C7: the judgment of the pair just processed names only outcomes of its
\* market, and so does every entry of the mapping.
C7_AffectsSubset ==
    /\ last.key # <<>> =>
        Range(DictGet(last.result, "affects_outcomes", <<>>)) \subseteq Range(last.names)
    /\ \A i \in DOMAIN news_market_mapping : \A m \in DOMAIN markets_with_metrics :
        markets_with_metrics[m].market_id = news_market_mapping[i].market_id =>
            Range(news_market_mapping[i].affects_outcomes)
                \subseteq Range(outcome_names(markets_with_metrics[m]))


\* the <<market, outcome>> places of the enriched markets
OutcomePlaces ==
    { p \in (DOMAIN markets_with_metrics) \X (1..MaxOutcomes) :
        p[2] \in DOMAIN markets_with_metrics[p[1]].outcomes }

MetricsAt(p) == markets_with_metrics[p[1]].outcomes[p[2]].risk_metrics

\* outcomes of the category among the markets that have the score
InputCount(category, score) ==
    Cardinality({ p \in OutcomePlaces :
                    MetricsAt(p).risk_category = category /\ MetricsAt(p).score = score })

\* items of a widget list that have the score
ListCount(list, score) == Cardinality({ i \in DOMAIN list : list[i].score = score })

RiskListOk(list, category) ==
    LET scores == { MetricsAt(p).score : p \in OutcomePlaces }
    IN  /\ Len(list) <= 5
        /\ \A i \in DOMAIN list :
            /\ list[i].risk_category = category
            /\ InputCount(category, list[i].score) > 0
        /\ \A v \in scores :
            /\ ListCount(list, v) <= InputCount(category, v)
            \* an outcome of score v was left out: no returned score is below v
            /\ ListCount(list, v) < InputCount(category, v) =>
                    \A i \in DOMAIN list : list[i].score >= v

\* C8: medium_risk and low_risk hold at most 5 items each, all of the list's
\* category, and no returned item scores below an outcome of the category
\* that was left out.
C8_RiskWidgetTop5 ==
    dashboard_data # None =>
        /\ RiskListOk(dashboard_data.widgets.risk_categories.medium_risk, "medium")
        /\ RiskListOk(dashboard_data.widgets.risk_categories.low_risk, "low")

\* six medium outcomes, the second of them the only one of score 1: it is the
\* one left out
C8_Witness ==
    /\ dashboard_data # None
    /\ InputCount("medium", 2) = 5
    /\ InputCount("medium", 1) = 1
    /\ MetricsAt(<<1, 2>>).risk_category = "medium"
    /\ MetricsAt(<<1, 2>>).score = 1
    /\ Len(dashboard_data.widgets.risk_categories.medium_risk) = 5
    /\ ListCount(dashboard_data.widgets.risk_categories.medium_risk, 2) = 5

\* the market ids of the mapping that belong to a market of the list
KnownIds ==
    { news_analysis.news_market_mapping[i].market_id :
        i \in DOMAIN news_analysis.news_market_mapping }
    \cap { markets_with_metrics[m].market_id : m \in DOMAIN markets_with_metrics }

\* C9: the news feed holds at most 10 entries and at most one entry for each
\* market_id of the mapping that is a market of the list; an unknown
\* market_id gives no entry.
C9_NewsFeedBounded ==
    dashboard_data # None =>
        LET feed == dashboard_data.widgets.news_feed
        IN  /\ Len(feed) <= 10
            /\ Len(feed) <= Cardinality(KnownIds)
            /\ \A i \in DOMAIN feed :
                \E m \in DOMAIN markets_with_metrics :
                    /\ markets_with_metrics[m].market_id \in KnownIds
                    /\ markets_with_metrics[m].question = feed[i].market_title
                    /\ markets_with_metrics[m].url = feed[i].market_url
            /\ \A i, j \in DOMAIN feed :
                i # j => feed[i].market_title # feed[j].market_title

\* eleven known markets and a judgment for an unknown one: ten entries
C9_Witness ==
    /\ dashboard_data # None
    /\ Cardinality(KnownIds) > 10
    /\ Len(news_analysis.news_market_mapping) > Cardinality(KnownIds)
    /\ \E i \in DOMAIN news_analysis.news_market_mapping :
            news_analysis.news_market_mapping[i].market_id \notin KnownIds
    /\ Len(dashboard_data.widgets.news_feed) = 10

AllSteps == <<"fetch_markets", "enrich", "fetch_news", "analyze", "aggregate", "write">>

\* C10: a run whose market fetch is empty ends with status 1 after the fetch
\* alone; the dashboard is written only as the last of the six steps, none of
\* which raised; main returns 0 only after that write.
C10_AbortAndOrder ==
    /\ (pc = "done" /\ markets_data = <<>>) =>
            /\ status = 1
            /\ steps = <<"fetch_markets">>
            /\ markets_with_metrics = <<>>
            /\ news_data = <<>>
            /\ news_analysis = None
            /\ dashboard_data = None
    /\ "write" \in Range(steps) => (steps = AllSteps /\ raised = "")
    /\ status = 0 => (steps = AllSteps /\ dashboard_file = dashboard_data)
    /\ pc = "done" <=> status \in {0, 1}

\* the second run fetched no market and stopped; the dashboard of the first
\* run is still there
C10_Witness ==
    /\ run = 2
    /\ pc = "done"
    /\ markets_data = <<>>
    /\ status = 1
    /\ dashboard_file # None

(***************************************************************************)
(* The fetches of a run                                                    *)
(***************************************************************************)
\* the requests of the market fetch, the requests of the feeds
MarketRequests == SelectSeq(net, LAMBDA e : e.call = "markets")

FeedRequests == SelectSeq(net, LAMBDA e : e.call # "markets")

\* the market fetch gave up: its last request failed
MarketFetchFailed == MarketRequests # <<>> /\ MarketRequests[Len(MarketRequests)].failed

\* a request of the news fetch failed
FeedFailedInRun == \E i \in DOMAIN FeedRequests : FeedRequests[i].failed

\* main stopped at the step just completed, with status 1 and no dashboard
StoppedAfter(step) ==
    /\ pc = "done"
    /\ status = 1
    /\ steps # <<>> /\ steps[Len(steps)] = step
    /\ dashboard_data = None

\* no step of main runs twice in a run
NoStepTwice == \A i, j \in DOMAIN steps : steps[i] = steps[j] => i = j

\* C11 as stated: once the market fetch has failed, or a feed request of the
\* news fetch has failed, main has stopped at that step with a non-zero status
\* and no dashboard, and no step is run again.
C11_FailFast ==
    /\ MarketFetchFailed => StoppedAfter("fetch_markets")
    /\ FeedFailedInRun => StoppedAfter("fetch_news")
    /\ NoStepTwice

\* C11 amended: a market fetch that failed or returned no market stops main
\* at step 1 with status 1 and no dashboard; a feed that fails is skipped,
\* every feed is still requested and main goes on to the analysis; no step is
\* run again.
C11_MarketFetchFailFast ==
    /\ (MarketFetchFailed \/ (steps # <<>> /\ markets_data = <<>>)) =>
            /\ StoppedAfter("fetch_markets")
            /\ steps = <<"fetch_markets">>
            /\ FeedRequests = <<>>
    /\ FeedFailedInRun =>
            /\ Len(FeedRequests) = Len(RSS_SOURCES)
            /\ Len(steps) >= 3 /\ steps[3] = "fetch_news"
            /\ pc # "fetch_news"
            /\ (status = 1 => raised # "")
            /\ \A i \in DOMAIN news_data :
                  \E k \in DOMAIN FeedRequests :
                      FeedRequests[k].call = news_data[i].source /\ ~FeedRequests[k].failed
    /\ NoStepTwice

\* a run in which a feed failed wrote the dashboard and returned 0
C11_Witness == FeedFailedInRun /\ pc = "done" /\ status = 0 /\ dashboard_file # None

\* C12: the dashboard has the three widgets risk_categories, closing_soon and
\* news_feed.
C12_ThreeWidgets ==
    dashboard_data # None =>
        {"risk_categories", "closing_soon", "news_feed"} \subseteq DOMAIN dashboard_data.widgets


\* the AI requests sent for the last pair
AiRequests == Len(SelectSeq(calls, LAMBDA c : c = "claude_ai"))

\* request i of a log is followed by the next attempt of the same call, after
\* a wait of 1 s that doubles with every attempt
RetriedAfter(log, i) ==
    /\ i < Len(log)
    /\ log[i + 1].call = log[i].call
    /\ log[i + 1].attempt = log[i].attempt + 1
    /\ log[i].wait = IF log[i].attempt = 0 THEN 1 ELSE 2 * log[i - 1].wait

\* C18 as stated: a failed request of the market fetch or of a feed that is not
\* the last of its MaxRetries attempts is followed by the next attempt after a
\* wait of 1 s, 2 s, ...; a request that succeeded, or failed as the last
\* attempt, is followed by no further attempt; a failed AI request is sent
\* again; no call is attempted more than MaxRetries times; no step of main
\* runs twice.
C18_EveryCallRetried ==
    /\ \A i \in DOMAIN net :
          /\ net[i].attempt < MaxRetries
          /\ IF net[i].failed /\ net[i].attempt < MaxRetries - 1
             THEN RetriedAfter(net, i)
             ELSE net[i].wait = 0 /\ (i < Len(net) => net[i + 1].call # net[i].call)
    /\ (last.reply.kind = "error" => AiRequests > 1)
    /\ AiRequests <= MaxRetries
    /\ NoStepTwice

\* C18 amended: only the market fetch is retried, and only after a
\* RequestException: at most MaxRetries attempts, numbered from 0, a wait of
\* 2^attempt s after a RequestException that is not the last attempt, no
\* further attempt after a success, after another exception or after the last
\* attempt; every feed is requested once, whether it fails or not; the AI is
\* asked at most once per pair; no step of main runs twice.
C18_OnlyMarketFetchRetried ==
    /\ \A i \in DOMAIN MarketRequests :
          /\ MarketRequests[i].attempt = i - 1
          /\ i <= MaxRetries
          /\ IF MarketRequests[i].kind = "request_exception" /\ i < MaxRetries
             THEN RetriedAfter(MarketRequests, i)
             ELSE MarketRequests[i].wait = 0 /\ i = Len(MarketRequests)
    /\ \A i \in DOMAIN FeedRequests :
          /\ FeedRequests[i].call = RSS_SOURCES[i]
          /\ FeedRequests[i].attempt = 0
          /\ FeedRequests[i].wait = 0
    /\ AiRequests <= 1
    /\ NoStepTwice

\* the market fetch succeeded at its last attempt after waits of 1 s and 2 s,
\* a feed failed, and a failed AI request was followed by the keyword strategy
C18_Witness ==
    /\ Len(MarketRequests) = MaxRetries
    /\ ~MarketFetchFailed
    /\ now = 3
    /\ FeedFailedInRun
    /\ last.reply.kind = "error"
    /\ calls = <<"claude_ai", "keyword_fallback">>


(***************************************************************************)
(* The risk scorer                                                         *)
(***************************************************************************)
\* the call of fn has returned
HasReturned(fn) == call.fn = fn /\ ret # None

\* the four conditions as stated, probability in thousandths and multiplier
\* in hundredths
StatedCategories(p, m) ==
    [ medium |-> 50 <= p /\ p <= 100 /\ 1000 <= m /\ m <= 2000,
      low |-> 100 < p /\ p <= 200 /\ 500 <= m /\ m <= 1000,
      extreme |-> p < 50 /\ m > 2000,
      safe |-> p > 600 /\ m < 200 ]

\* C13: categorize_risk returns medium, low, extreme or safe exactly when the
\* stated condition of that category holds and other when none holds; no two
\* of the four conditions hold together.
C13_CategorizeRisk ==
    HasReturned("categorize_risk") =>
        LET stated == StatedCategories(call.probability, call.multiplier)
        IN  /\ ret.value \in DOMAIN stated \cup {"other"}
            /\ \A c \in DOMAIN stated : ret.value = c <=> stated[c]
            /\ ret.value = "other" <=> \A c \in DOMAIN stated : ~stated[c]
            /\ \A c, d \in DOMAIN stated : stated[c] /\ stated[d] => c = d

\* probability 0.10 with multiplier 10.00, where medium ends and low begins
C13_Witness ==
    /\ HasReturned("categorize_risk")
    /\ call.probability = 100 /\ call.multiplier = 1000
    /\ ret.value = "medium"

\* C14: kelly_fraction is in [0, 1]; it is 0 when the multiplier 1 / price is
\* at most 1 (price = 1) or is taken as 0 (price = 0); at price = 0 the
\* multiplier returned is 0 and the score is 0.
C14_KellyRange ==
    HasReturned("calculate_risk_reward_score") =>
        /\ 0 <= ret.value.kelly_fraction /\ ret.value.kelly_fraction <= 10000
        /\ (call.price = 0 \/ call.price >= 1000) => ret.value.kelly_fraction = 0
        /\ call.price = 0 => ret.value.multiplier = 0 /\ ret.value.score = 0

\* price 0 with probability 1
C14_Witness ==
    /\ HasReturned("calculate_risk_reward_score")
    /\ call.price = 0 /\ call.probability = 1000
    /\ ret.value.kelly_fraction = 0 /\ ret.value.multiplier = 0


(***************************************************************************)
(* The keyword strategy and the cache key                                  *)
(***************************************************************************)
\* the question tokens that are no stopword and are title tokens
OverlapTokens(question, title) == (split(lower(question)) \ STOPWORDS) \cap split(lower(title))

\* C15: keyword_fallback_analysis returns the outcome names whose lower-cased
\* form is in the lower-cased title, in input order; the score
\* min(10, (5 if a name matched) + min(5, 0.5 per overlapping token)); neutral,
\* low and keyword_fallback.
C15_KeywordJudgment ==
    HasReturned("keyword_fallback_analysis") =>
        LET title == lower(call.news_title)
            affects == SelectSeq(call.market_outcomes, LAMBDA o : IsSubstring(lower(o), title))
            tokens == Cardinality(OverlapTokens(call.market_question, call.news_title))
        IN  /\ ret.value.affects_outcomes = affects
            /\ ret.value.relevance_score =
                    Min(Pts(10), (IF affects # <<>> THEN Pts(5) ELSE 0) + Min(Pts(5), tokens))
            /\ ret.value.impact_direction = "neutral"
            /\ ret.value.confidence = "low"
            /\ ret.value.analysis_method = "keyword_fallback"

\* eleven overlapping tokens count as 5 points, and a name written in another
\* case than in the title is matched: the score is 10
C15_Witness ==
    /\ HasReturned("keyword_fallback_analysis")
    /\ Cardinality(OverlapTokens(call.market_question, call.news_title)) > 10
    /\ ret.value.affects_outcomes = <<No>>
    /\ ret.value.relevance_score = Pts(10)

\* C20: two pairs that differ in the title or in the market id have
\* different cache keys.
C20_KeysDiffer ==
    (/\ HasReturned("get_cache_key")
     /\ call.news_title # call.other_title \/ call.market_id # call.other_id)
        => ret.value[1] # ret.value[2]


(***************************************************************************)
(* Ties in the widgets                                                     *)
(***************************************************************************)
\* the place of the outcome a widget item was made from
PlaceOf(item) ==
    CHOOSE p \in OutcomePlaces :
        /\ markets_with_metrics[p[1]].question = item.market_title
        /\ markets_with_metrics[p[1]].outcomes[p[2]].name = item.outcome_name

\* traversal order: market order, then outcome order within the market
Before(p, q) == p[1] < q[1] \/ (p[1] = q[1] /\ p[2] < q[2])

TiesInTraversalOrder(list, category) ==
    /\ \A i, j \in DOMAIN list :
          (i < j /\ list[i].score = list[j].score) => Before(PlaceOf(list[i]), PlaceOf(list[j]))
    /\ \A p \in OutcomePlaces :
          (/\ MetricsAt(p).risk_category = category
           /\ \A i \in DOMAIN list : PlaceOf(list[i]) # p)
          => \A i \in DOMAIN list :
                list[i].score = MetricsAt(p).score => Before(PlaceOf(list[i]), p)

\* C16: in medium_risk and in low_risk, items of equal score are in traversal
\* order, and an outcome left out comes after every returned item of its
\* score in traversal order.
C16_StableTies ==
    dashboard_data # None =>
        /\ TiesInTraversalOrder(dashboard_data.widgets.risk_categories.medium_risk, "medium")
        /\ TiesInTraversalOrder(dashboard_data.widgets.risk_categories.low_risk, "low")

\* more than 5 medium outcomes, all of one score: the tie straddles the cut
C16_Witness ==
    /\ dashboard_data # None
    /\ Len(dashboard_data.widgets.risk_categories.medium_risk) = TopRisk
    /\ \E v \in {MetricsAt(p).score : p \in OutcomePlaces} :
          /\ InputCount("medium", v) > TopRisk
          /\ ListCount(dashboard_data.widgets.risk_categories.medium_risk, v) = TopRisk

\* the judgments of the mapping for a market, in mapping order
GroupOf(market_id) ==
    SelectSeq(news_analysis.news_market_mapping, LAMBDA x : x.market_id = market_id)

\* the highest score of a group
BestScore(market_id) ==
    CHOOSE v \in {RelevanceOf(GroupOf(market_id)[i]) : i \in DOMAIN GroupOf(market_id)} :
        \A i \in DOMAIN GroupOf(market_id) : RelevanceOf(GroupOf(market_id)[i]) <= v

\* C17: every entry of the news feed carries the first judgment with the
\* highest score of a market's group and that market's question and url; the
\* entries are in non-increasing order of score; a known market with no entry
\* has a best score that no entry is below.
C17_BestPerMarket ==
    dashboard_data # None =>
        LET feed == dashboard_data.widgets.news_feed
            markets == markets_with_metrics
        IN  /\ \A e \in DOMAIN feed :
                  \E m \in DOMAIN markets :
                      LET group == GroupOf(markets[m].market_id)
                      IN  /\ feed[e].market_title = markets[m].question
                          /\ feed[e].market_url = markets[m].url
                          /\ group # <<>>
                          /\ feed[e].relevance_score = BestScore(markets[m].market_id)
                          /\ \E i \in DOMAIN group :
                                /\ RelevanceOf(group[i]) = feed[e].relevance_score
                                /\ \A j \in 1..(i - 1) :
                                      RelevanceOf(group[j]) < feed[e].relevance_score
                                /\ group[i].news_title = feed[e].news_title
                                /\ group[i].news_link = feed[e].news_link
            /\ \A e, f \in DOMAIN feed :
                  e < f => feed[e].relevance_score >= feed[f].relevance_score
            /\ \A m \in DOMAIN markets :
                  (/\ markets[m].market_id \in KnownIds
                   /\ \A e \in DOMAIN feed : feed[e].market_title # markets[m].question)
                  => \A e \in DOMAIN feed :
                        feed[e].relevance_score >= BestScore(markets[m].market_id)

\* more known markets than TopFeed, and the first market has two judgments
\* of the top score: the feed names the first of them
C17_Witness ==
    /\ dashboard_data # None
    /\ Cardinality(KnownIds) > TopFeed
    /\ \E id \in KnownIds :
          /\ Len(GroupOf(id)) > 1
          /\ RelevanceOf(GroupOf(id)[1]) = RelevanceOf(GroupOf(id)[2])
          /\ \E e \in DOMAIN dashboard_data.widgets.news_feed :
                dashboard_data.widgets.news_feed[e].news_title = GroupOf(id)[1].news_title


(***************************************************************************)
(* The counters of analyze_news_relevance                                  *)
(***************************************************************************)
\* the markets that have an outcome with a non-empty name
NamedMarkets ==
    { m \in DOMAIN markets_with_metrics :
        \E o \in DOMAIN markets_with_metrics[m].outcomes :
            markets_with_metrics[m].outcomes[o].name # <<>> }

\* C19: after every step total_analyzed = cached + claude_ai +
\* keyword_fallback and errors = 0; the step at a market with no named outcome
\* changes no counter, nor the cache, nor the mapping; when the analysis
\* returns, total_analyzed is the number of pairs of one of the first 10 news
\* items and a market with a named outcome.
C19_StatsAccounting ==
    [][ /\ stats'.total_analyzed = stats'.cached + stats'.claude_ai + stats'.keyword_fallback
        /\ stats'.errors = 0
        /\ (pc = "analyze_loop" /\ ~LoopDone /\ pos[2] \notin NamedMarkets) =>
                /\ stats' = stats
                /\ cache' = cache
                /\ news_market_mapping' = news_market_mapping
        /\ (pc = "analyze_loop" /\ pc' = "aggregate") =>
                /\ news_analysis'.stats = stats'
                /\ stats'.total_analyzed = Min(Len(news_data), 10) * Cardinality(NamedMarkets)
      ]_vars

\* an analysis of more than 10 news items returned, having passed over a
\* market with no named outcome, with cache hits
C19_Witness ==
    /\ pc = "aggregate"
    /\ Len(news_data) > 10
    /\ Cardinality(NamedMarkets) < Len(markets_with_metrics)
    /\ stats.cached > 0
    /\ stats.total_analyzed = 10 * Cardinality(NamedMarkets)


\* the price of the call lies in (0, 1]
PriceInRange == ret.value.price.num > 0 /\ ret.value.price.num <= ret.value.price.den

\* categorize_risk of the price num / den and the exact multiplier
\* 1 / price = den / num
ExactCategory(price) ==
    LET p == price.num
        one == price.den
        \* 0.05 <= price, price <= 0.10, price <= 0.20, price > 0.60
        p_ge_005 == 5 * one <= 100 * p
        p_le_010 == 10 * p <= one
        p_le_020 == 5 * p <= one
        p_gt_060 == 10 * p > 6 * one
        \* 1 / price against 20, 10, 5 and 2
        m_le_20 == one <= 20 * p
        m_ge_10 == 10 * p <= one
        m_le_10 == one <= 10 * p
        m_ge_5 == 5 * p <= one
        m_lt_2 == one < 2 * p
    IN  IF p_ge_005 /\ p_le_010 /\ m_ge_10 /\ m_le_20 THEN "medium"
        ELSE IF ~p_le_010 /\ p_le_020 /\ m_ge_5 /\ m_le_10 THEN "low"
        ELSE IF ~p_ge_005 /\ ~m_le_20 THEN "extreme"
        ELSE IF p_gt_060 /\ m_lt_2 THEN "safe"
        ELSE "other"

\* C21: every enriched outcome with a price in (0, 1] gets, from the
\* multiplier rounded to two decimals, the category of the exact multiplier
\* 1 / price: "extreme" below 0.05, "medium" in [0.05, 0.10], "low" in
\* (0.10, 0.20], "safe" above 0.60
C21_RoundedCategoryIsExact ==
    (HasReturned("enrich_with_risk_metrics") /\ PriceInRange) =>
        LET p == ret.value.price.num
            one == ret.value.price.den
            category == ret.value.risk_category
        IN  /\ category = ExactCategory(ret.value.price)
            /\ 20 * p < one => category = "extreme"
            /\ (one <= 20 * p /\ 10 * p <= one) => category = "medium"
            /\ (one < 10 * p /\ 5 * p <= one) => category = "low"
            /\ 10 * p > 6 * one => category = "safe"

====
